---- MODULE Spec2Model ----
(***************************************************************************)
(* A model of the 2D physics engine: the body and world structures, the    *)
(* Verlet integrator (movementSystem), the spatial grid, the system        *)
(* manager and the frame loop of main().                                   *)
(*                                                                         *)
(* Arithmetic.  The program computes in float.  The model computes in      *)
(* exact arithmetic on an integer grid: lengths, times and masses are      *)
(* expressed in model units chosen so that every product and quotient the  *)
(* program forms on the explored behaviours is an integer (the fixed step  *)
(* is fixed_dt time units, one mass unit is one mass edit step, ...).      *)
(* Three codes outside the finite range stand for the IEEE-754 values      *)
(* +inf, -inf and NaN, which the program's float division can produce.     *)
(***************************************************************************)
EXTENDS Integers, Sequences, FiniteSets, TLC

(***************************************************************************)
(* Bounds of the model.                                                    *)
(***************************************************************************)
\* finite float values explored stay within -FMax .. FMax
FMax == 1000000
\* integrator steps applied in the integrator-only specifications
MaxSteps == 3
\* largest delta_time tried in the integrator-only specification
MaxDt == 2

(***************************************************************************)
(* float: finite values and the IEEE-754 specials.                         *)
(***************************************************************************)
PosInf == FMax + 1
NegInf == 0 - (FMax + 1)
NaN == FMax + 2

IsFinite(a) == a > NegInf /\ a < PosInf

FNeg(a) == IF a = NaN THEN NaN ELSE 0 - a

FAdd(a, b) ==
    IF a = NaN \/ b = NaN THEN NaN
    ELSE IF a = PosInf THEN (IF b = NegInf THEN NaN ELSE PosInf)
    ELSE IF a = NegInf THEN (IF b = PosInf THEN NaN ELSE NegInf)
    ELSE IF b = PosInf \/ b = NegInf THEN b
    ELSE a + b

FSub(a, b) == FAdd(a, FNeg(b))

FMul(a, b) ==
    IF a = NaN \/ b = NaN THEN NaN
    ELSE IF IsFinite(a) /\ IsFinite(b) THEN a * b
    ELSE IF a = 0 \/ b = 0 THEN NaN
    ELSE IF (a > 0) = (b > 0) THEN PosInf ELSE NegInf

\* x * (1.0f / d): the quotient x / d for d # 0; 1.0f / 0.0f is +inf
FMulInverse(x, d) ==
    IF d = 0 THEN FMul(x, PosInf)
    ELSE IF IsFinite(x) THEN x \div d
    ELSE x

(***************************************************************************)
(* vec2                                                                    *)
(***************************************************************************)
vec2(x, y) == <<x, y>>
VAdd(u, v) == <<FAdd(u[1], v[1]), FAdd(u[2], v[2])>>
VSub(u, v) == <<FSub(u[1], v[1]), FSub(u[2], v[2])>>
VScale(u, s) == <<FMul(u[1], s), FMul(u[2], s)>>
VFinite(u) == IsFinite(u[1]) /\ IsFinite(u[2])

(***************************************************************************)
(* body                                                                    *)
(***************************************************************************)
\* inv_mass is kept as the fraction <<numerator, denominator>>
ZeroInvMass == <<0, 1>>
InverseOf(mass) == IF mass > 0 THEN <<1, mass>> ELSE ZeroInvMass

\* body::body(position, velocity, acceleration, mass, inv_mass, ...)
body(position_param, velocity_param, acceleration_param, mass_param, inv_mass_param, radius_param, restitution_param, damping_param, friction_param) ==
    [position |-> position_param,
     previous_position |-> position_param,
     velocity |-> velocity_param,
     acceleration |-> acceleration_param,
     mass |-> mass_param,
     inv_mass |-> IF mass_param <= 0 THEN ZeroInvMass ELSE inv_mass_param,
     radius |-> radius_param,
     damping |-> damping_param,
     friction |-> friction_param,
     restitution |-> restitution_param]

create_body(pos_x, pos_y, vel_x, vel_y, mass, radius, restitution, damping, friction) ==
    body(vec2(pos_x, pos_y), vec2(vel_x, vel_y), vec2(0, 0), mass,
         InverseOf(mass), radius, restitution, damping, friction)

IsStatic(b) == b.inv_mass[1] <= 0

\* previous_position = position - velocity * dt
Reconciled(b, dt) == [b EXCEPT !.previous_position = VSub(b.position, VScale(b.velocity, dt))]

(***************************************************************************)
(* movementSystem::verlet_integration                                      *)
(***************************************************************************)
\* speed = sqrt(vx*vx + vy*vy), as the square of a finite speed or a special
SpeedSquared(v) == FAdd(FMul(v[1], v[1]), FMul(v[2], v[2]))

\* speed > 1e-6f: one model unit of velocity is far above 1e-6
SpeedAboveEpsilon(v) == SpeedSquared(v) # NaN /\ SpeedSquared(v) > 0

\* vel_dir * (friction * speed) with vel_dir = velocity * (1.0f / speed)
FrictionTerm(v, friction) ==
    IF IsFinite(SpeedSquared(v)) THEN VScale(v, friction)
    ELSE VScale(VScale(v, 0), FMul(friction, PosInf))

TotalAcceleration(b, gravity) ==
    LET damped == IF b.damping # 0
                  THEN VSub(gravity, VScale(b.velocity, b.damping))
                  ELSE gravity
    IN IF b.friction # 0 /\ SpeedAboveEpsilon(b.velocity)
       THEN VSub(damped, FrictionTerm(b.velocity, b.friction))
       ELSE damped

\* a variant of VerletNoSkip whose acceleration term is a * dt
VerletNoSkipLinearTerm(b, gravity, dt) ==
    LET acceleration_term == VScale(TotalAcceleration(b, gravity), dt)
        next_position == VAdd(VSub(VScale(b.position, 2), b.previous_position),
                              acceleration_term)
    IN [b EXCEPT !.previous_position = b.position,
                 !.position = next_position,
                 !.velocity = <<FMulInverse(FSub(next_position[1], b.position[1]), dt),
                                FMulInverse(FSub(next_position[2], b.position[2]), dt)>>]

VerletNoSkip(b, gravity, dt) ==
    LET acceleration_term == VScale(TotalAcceleration(b, gravity), FMul(dt, dt))
        next_position == VAdd(VSub(VScale(b.position, 2), b.previous_position),
                              acceleration_term)
    IN [b EXCEPT !.previous_position = b.position,
                 !.position = next_position,
                 !.velocity = <<FMulInverse(FSub(next_position[1], b.position[1]), dt),
                                FMulInverse(FSub(next_position[2], b.position[2]), dt)>>]

\* a variant of VerletBody without the static-body check
VerletBodyNoStaticCheck(b, gravity, dt) == VerletNoSkip(b, gravity, dt)

VerletBody(b, gravity, dt) ==
    IF b.inv_mass[1] <= 0 THEN b ELSE VerletNoSkip(b, gravity, dt)

verlet_integration(bs, gravity, dt) ==
    [i \in 1..Len(bs) |-> VerletBody(bs[i], gravity, dt)]

(***************************************************************************)
(* GridInfo, world                                                         *)
(***************************************************************************)
\* one length unit is one screen pixel: world_scale units to the metre
screen_width == 1200
screen_height == 800
world_scale == 10
center_x == screen_width \div 2
center_y == screen_height \div 2

\* a length given in metres in the source, in length units
Metres(m) == m * world_scale

cell_size == Metres(5)

\* std::ceil(a / b) for b > 0
Ceil(a, b) == 0 - ((0 - a) \div b)

DefaultGridInfo ==
    [min_x |-> Metres(0 - 100), max_x |-> Metres(100),
     max_y |-> Metres(100), min_y |-> Metres(0 - 100),
     num_cells_x |-> 0, num_cells_y |-> 0]

\* std::vector<std::vector<body *>>: the number of cells, and the contents of
\* the non-empty cells (a cell holds body references: indices into bodies)
EmptyGrid(n) == [size |-> n, cells |-> <<>>]
CellAt(g, i) == IF i \in DOMAIN g.cells THEN g.cells[i] ELSE <<>>

\* world::world(bodies, gravedad, delta_time): the grid it resizes; grid_info
\* keeps its default num_cells_x = num_cells_y = 0
ConstructedGrid(gi) ==
    LET numCellsX == Ceil(gi.max_x - gi.min_x, cell_size)
        numCellsY == Ceil(gi.max_y - gi.min_y, cell_size)
    IN EmptyGrid(numCellsX * numCellsY)

\* world::limpieza
limpieza(g) == [g EXCEPT !.cells = <<>>]

\* world::get_grid_index
get_grid_index(gi, posicion) ==
    IF \/ posicion[1] < gi.min_x \/ posicion[1] > gi.max_x
       \/ posicion[2] < gi.min_y \/ posicion[2] > gi.max_y
    THEN 0 - 1
    ELSE ((posicion[1] - gi.min_x) \div cell_size)
         + ((posicion[2] - gi.min_y) \div cell_size) * gi.num_cells_x

\* grid[tempIndex].push_back(&body); an index past the end of the vector is an
\* out-of-bounds write, which stores the reference in no cell of the grid
PushBack(g, tempIndex, ref) ==
    IF tempIndex >= g.size THEN g
    ELSE [g EXCEPT !.cells =
            [i \in (DOMAIN g.cells) \cup {tempIndex} |->
                IF i = tempIndex THEN Append(CellAt(g, i), ref) ELSE g.cells[i]]]

RECURSIVE RepoblarFrom(_, _, _, _)
RepoblarFrom(g, gi, bs, k) ==
    IF k > Len(bs) THEN g
    ELSE LET tempIndex == get_grid_index(gi, bs[k].position)
         IN RepoblarFrom(IF tempIndex >= 0 THEN PushBack(g, tempIndex, k) ELSE g,
                         gi, bs, k + 1)

\* world::repoblar
repoblar(g, gi, bs) == RepoblarFrom(g, gi, bs, 1)

\* whether repoblar indexes the grid past its end
RepoblarOutOfBounds(g, gi, bs) ==
    \E k \in 1..Len(bs) : get_grid_index(gi, bs[k].position) >= g.size

(***************************************************************************)
(* collisionSystem::update, per tick: clear and repopulate the grid,       *)
(* broad and narrow phase, boundary collisions.                            *)
(***************************************************************************)
DistanceSquared(p, q) == (p[1] - q[1]) * (p[1] - q[1]) + (p[2] - q[2]) * (p[2] - q[2])

\* narrow phase: the candidate pairs (bodies sharing a cell) that overlap,
\* pairs of two static bodies skipped
ConfirmedCollisions(g, bs) ==
    {pair \in (1..Len(bs)) \X (1..Len(bs)) :
        /\ pair[1] < pair[2]
        /\ \E c \in DOMAIN g.cells :
              /\ \E k \in DOMAIN g.cells[c] : g.cells[c][k] = pair[1]
              /\ \E k \in DOMAIN g.cells[c] : g.cells[c][k] = pair[2]
        /\ ~(IsStatic(bs[pair[1]]) /\ IsStatic(bs[pair[2]]))
        /\ DistanceSquared(bs[pair[1]].position, bs[pair[2]].position)
             < (bs[pair[1]].radius + bs[pair[2]].radius)
               * (bs[pair[1]].radius + bs[pair[2]].radius)}

\* a penetrated boundary: position clamped to the boundary plus the radius, the
\* perpendicular velocity reflected and scaled by the restitution,
\* previous_position re-derived
Bounce(b, axis, clamped, dt) ==
    Reconciled([b EXCEPT !.position[axis] = clamped,
                         !.velocity[axis] = 0 - (b.restitution * b.velocity[axis])], dt)

ResolveLeftWall(b, gi, dt) ==
    IF b.position[1] - b.radius < gi.min_x THEN Bounce(b, 1, gi.min_x + b.radius, dt) ELSE b

ResolveRightWall(b, gi, dt) ==
    IF b.position[1] + b.radius > gi.max_x THEN Bounce(b, 1, gi.max_x - b.radius, dt) ELSE b

\* a variant of ResolveGround: the velocity reflected without the restitution
ResolveGroundNoRestitution(b, gi, dt) ==
    IF b.position[2] - b.radius < gi.min_y
    THEN Reconciled([b EXCEPT !.position[2] = gi.min_y + b.radius,
                              !.velocity[2] = 0 - b.velocity[2]], dt)
    ELSE b

ResolveGround(b, gi, dt) ==
    IF b.position[2] - b.radius < gi.min_y THEN Bounce(b, 2, gi.min_y + b.radius, dt) ELSE b

ResolveCeiling(b, gi, dt) ==
    IF b.position[2] + b.radius > gi.max_y THEN Bounce(b, 2, gi.max_y - b.radius, dt) ELSE b

BoundaryBody(b, gi, dt) ==
    IF IsStatic(b) THEN b
    ELSE ResolveCeiling(ResolveGround(ResolveRightWall(ResolveLeftWall(b, gi, dt), gi, dt), gi, dt), gi, dt)

BoundaryCollisions(bs, gi, dt) == [i \in 1..Len(bs) |-> BoundaryBody(bs[i], gi, dt)]

(***************************************************************************)
(* main(): configuration                                                   *)
(***************************************************************************)
\* the fixed physics step, in time units
fixed_dt == 2
gravity == vec2(0, 0 - 10)

\* masses are counted in hundredths: the edit step 0.1f and the floor 0.01f
MassStep == 10
MinSpawnMass == 1
\* radii are lengths: the edit step and the floor are 0.1f metres
RadiusStep == 1
MinRadius == 1
\* restitution takes the values 0 and 1 of its range [0, 1]
RestitutionStep == 1
RestitutionMax == 1
\* damping and friction steps of the selected body and of the spawn defaults
DampingStep == 1
SpawnDampingStep == 5

\* the mass of the initial bodies and of the spawn default, in edit steps
InitialMassSteps == 1
InitialMass == InitialMassSteps * MassStep
InitialRadius == Metres(2)

Max(a, b) == IF a >= b THEN a ELSE b
Min(a, b) == IF a <= b THEN a ELSE b

\* the bodies main() creates
InitialBodies ==
    << create_body(Metres(0), Metres(40), 0, 0, InitialMass, InitialRadius, 1, 0, 0),
       create_body(Metres(15), Metres(40), 0 - 5, 0, InitialMass, InitialRadius, 1, 0, 0),
       create_body(Metres(0 - 15), Metres(40), 5, 0, InitialMass, InitialRadius, 0, 0, 0) >>

\* the visible window in world coordinates
vis_min_x == Metres(0 - center_x) \div world_scale
vis_max_x == Metres(screen_width - center_x) \div world_scale
vis_max_y == Metres(center_y) \div world_scale
vis_min_y == Metres(0 - (screen_height - center_y)) \div world_scale

\* main(): the rectangle set to the visible window, the grid sizes recomputed
\* and stored, the grid storage resized
ReconfiguredGridInfo(gi) ==
    LET r == [gi EXCEPT !.min_x = vis_min_x, !.max_x = vis_max_x,
                        !.min_y = vis_min_y, !.max_y = vis_max_y]
    IN [r EXCEPT !.num_cells_x = Ceil(r.max_x - r.min_x, cell_size),
                 !.num_cells_y = Ceil(r.max_y - r.min_y, cell_size)]

ReconfiguredGrid(gi) == EmptyGrid(Max(1, gi.num_cells_x * gi.num_cells_y))

\* a variant of Registration: the collision system registered first
RegistrationReversed == << "collisionSystem", "movementSystem" >>

\* the order in which main() registers the systems
Registration == << "movementSystem", "collisionSystem" >>

\* if (dt > 0.0f) b.previous_position = b.position - b.velocity * dt
ReconcileIfDt(b, dt) == IF dt > 0 THEN Reconciled(b, dt) ELSE b

(***************************************************************************)
(* main(): input handling                                                  *)
(***************************************************************************)
\* screen to world
ScreenToWorld(m) == vec2(Metres(m[1] - center_x) \div world_scale,
                         Metres(center_y - m[2]) \div world_scale)

\* select_body_at_screen: the nearest body whose disc holds the click, -1 if none
RECURSIVE SelectFrom(_, _, _, _, _)
SelectFrom(bs, click, i, best_idx, best_dist2) ==
    IF i >= Len(bs) THEN best_idx
    ELSE LET d2 == DistanceSquared(bs[i + 1].position, click)
         IN IF (best_idx < 0 \/ d2 < best_dist2)
               /\ d2 <= bs[i + 1].radius * bs[i + 1].radius
            THEN SelectFrom(bs, click, i + 1, i, d2)
            ELSE SelectFrom(bs, click, i + 1, best_idx, best_dist2)

select_body_at_screen(bs, m) == SelectFrom(bs, ScreenToWorld(m), 0, 0 - 1, 0)

ValidIndex(bs, idx) == idx >= 0 /\ idx < Len(bs)

\* b.position * (1 - lerp_f) + latest_mouse * lerp_f with lerp_f = 0.25f,
\* rounded down to the grid
Lerp(p, m) == vec2((3 * p[1] + m[1]) \div 4, (3 * p[2] + m[2]) \div 4)

\* the dragged body moved a quarter of the way to the mouse, at rest
DragMove(b, latest_mouse, dt) ==
    ReconcileIfDt([b EXCEPT !.position = Lerp(b.position, latest_mouse),
                            !.velocity = vec2(0, 0)], dt)

\* mouse_history[(mouse_history_idx - 1 + 8) % 8]
NewestMouse(h) == h.hist[((h.idx - 1 + 8) % 8) + 1]
OldestMouse(h) == h.hist[((h.idx - h.count + 8) % 8) + 1]

PushMouse(h, w) ==
    [hist |-> [h.hist EXCEPT ![h.idx + 1] = w],
     idx |-> (h.idx + 1) % 8,
     count |-> Min(h.count + 1, 8)]

\* the throw velocity on release: half the average mouse velocity over the
\* history (one sample per 1/60 s, which is fixed_dt), rounded down to the grid
ThrowVelocity(h) ==
    IF h.count >= 2
    THEN LET delta == VSub(NewestMouse(h), OldestMouse(h))
             dt_total == h.count * fixed_dt
         IN vec2(delta[1] \div (2 * dt_total), delta[2] \div (2 * dt_total))
    ELSE vec2(0, 0)

\* a variant of Release that leaves previous_position alone
ReleaseNoReconcile(b, h, dt) == [b EXCEPT !.velocity = ThrowVelocity(h)]

Release(b, h, dt) == ReconcileIfDt([b EXCEPT !.velocity = ThrowVelocity(h)], dt)

\* the body SPACE spawns at the mouse
Spawned(sp, m, dt) ==
    LET w == ScreenToWorld(m)
    IN ReconcileIfDt(create_body(w[1], w[2], 0, 0, sp.mass, sp.radius,
                                 sp.restitution, sp.damping, sp.friction), dt)

\* the spawn parameter keys 1 .. 0
SpawnKey(sp, k) ==
    CASE k = "ONE" -> [sp EXCEPT !.mass = Max(MinSpawnMass, sp.mass - MassStep)]
      [] k = "TWO" -> [sp EXCEPT !.mass = sp.mass + MassStep]
      [] k = "THREE" -> [sp EXCEPT !.restitution = Max(0, sp.restitution - RestitutionStep)]
      [] k = "FOUR" -> [sp EXCEPT !.restitution = Min(RestitutionMax, sp.restitution + RestitutionStep)]
      [] k = "FIVE" -> [sp EXCEPT !.radius = Max(MinRadius, sp.radius - RadiusStep)]
      [] k = "SIX" -> [sp EXCEPT !.radius = sp.radius + RadiusStep]
      [] k = "SEVEN" -> [sp EXCEPT !.damping = Max(0, sp.damping - SpawnDampingStep)]
      [] k = "EIGHT" -> [sp EXCEPT !.damping = sp.damping + SpawnDampingStep]
      [] k = "NINE" -> [sp EXCEPT !.friction = Max(0, sp.friction - SpawnDampingStep)]
      [] k = "ZERO" -> [sp EXCEPT !.friction = sp.friction + SpawnDampingStep]
      [] OTHER -> sp

SpawnKeys == {"ONE", "TWO", "THREE", "FOUR", "FIVE", "SIX", "SEVEN", "EIGHT", "NINE", "ZERO"}
EditKeys == {"M", "B", "R", "T", "S", "A", "Y", "U", "G", "H"}

\* the property keys of the selected body
EditField(sel, k) ==
    CASE k = "M" -> [sel EXCEPT !.mass = sel.mass + MassStep]
      [] k = "B" -> [sel EXCEPT !.mass = Max(0, sel.mass - MassStep)]
      [] k = "R" -> [sel EXCEPT !.restitution = Min(RestitutionMax, sel.restitution + RestitutionStep)]
      [] k = "T" -> [sel EXCEPT !.restitution = Max(0, sel.restitution - RestitutionStep)]
      [] k = "S" -> [sel EXCEPT !.radius = sel.radius + RadiusStep]
      [] k = "A" -> [sel EXCEPT !.radius = Max(MinRadius, sel.radius - RadiusStep)]
      [] k = "Y" -> [sel EXCEPT !.damping = Max(0, sel.damping - DampingStep)]
      [] k = "U" -> [sel EXCEPT !.damping = sel.damping + DampingStep]
      [] k = "G" -> [sel EXCEPT !.friction = Max(0, sel.friction - DampingStep)]
      [] k = "H" -> [sel EXCEPT !.friction = sel.friction + DampingStep]
      [] OTHER -> sel

\* a variant of SyncEdited that keeps the old inv_mass
SyncEditedKeepInvMass(sel, dt) == ReconcileIfDt(sel, dt)

\* if (changed): inv_mass recomputed, previous_position synchronised
SyncEdited(sel, dt) ==
    ReconcileIfDt([sel EXCEPT !.inv_mass = InverseOf(sel.mass)], dt)

\* a property key pressed on the selected body
Edited(sel, k, dt) == SyncEdited(EditField(sel, k), dt)

\* sim_world.bodies.erase(begin + i), i counted from 0
Erase(bs, i) == [j \in 1..(Len(bs) - 1) |-> IF j <= i THEN bs[j] ELSE bs[j + 1]]

\* a variant of RestoreBody that resets previous_position to the position
RestoreBodyAtRest(b, dt) ==
    [b EXCEPT !.inv_mass = InverseOf(b.mass), !.previous_position = b.position]

\* key L: the snapshot copied back, inv_mass and previous_position recomputed
RestoreBody(b, dt) == ReconcileIfDt([b EXCEPT !.inv_mass = InverseOf(b.mass)], dt)

Restored(snap, dt) == [i \in 1..Len(snap) |-> RestoreBody(snap[i], dt)]

\* main(): previous_position initialised for the first Verlet step
InitialCorrection(bs, dt) == [i \in 1..Len(bs) |-> Reconciled(bs[i], dt)]

(***************************************************************************)
(* State                                                                   *)
(***************************************************************************)
VARIABLES
    \* world
    bodies, gravity_vector, delta_time, grid_info, grid,
    \* an out-of-bounds access to the grid has happened
    fault,
    \* where the program is
    pc,
    \* systemManager: the registered systems, the systems already run in the
    \* update in progress
    systems, sys_i,
    \* main(): the fixed-step loop and the pause/step/snapshot controls
    accumulator, paused, step_next, snapshot,
    \* main(): selection, drag and spawn state; the mouse button last frame
    selected_body_index, dragging, dragging_idx, mouse_history, spawn, mouse_was_down,
    \* the inputs of the frame in progress
    input,
    \* history: frames and input events so far; the handlers that have written
    \* bodies; the bodies when the tick in progress began and the systems it
    \* has run; the bodies at the start and the calls made since
    frames, events, touched, tick_start, ran, initial_bodies, calls,
    \* the N presses made while paused, and the ticks run for them
    step_log

worldVars == <<bodies, gravity_vector, delta_time, grid_info, grid, fault>>
loopVars == <<systems, sys_i, accumulator, paused, step_next, snapshot>>
uiVars == <<selected_body_index, dragging, dragging_idx, mouse_history, spawn, mouse_was_down>>
histVars == <<frames, events, touched, tick_start, ran, initial_bodies, calls, step_log>>
vars == <<worldVars, pc, loopVars, uiVars, input, histVars>>

\* bounds on the frames explored, the input events in them, the frame time
\* and the bodies in the world
MaxFrames == 4
MaxEvents == 2
MaxFrameTime == 3
MaxBodies == 4

\* mouse positions tried, in pixels: on the first body, near the ground, at
\* the right edge
MousePoints == { <<600, 0>>, <<600, 770>>, <<1199, 400>> }
IdleMouse == <<600, 0>>

\* frame times tried: none, and the longest
FrameTimes == {0, MaxFrameTime}

NoInput == [frame_time |-> 0, keys |-> {}, mouse_down |-> FALSE, mouse |-> IdleMouse]

AllKeys == {"P", "N", "O", "L", "SPACE", "X"} \cup SpawnKeys \cup EditKeys
KeySets == {{}} \cup {{k} : k \in AllKeys} \cup {{"O", "L"}, {"P", "N"}}

\* the one key of S that is pressed, "none" if there is none
KeyOf(keys, S) == IF keys \cap S = {} THEN "none" ELSE CHOOSE k \in keys \cap S : TRUE

MainInit ==
    /\ frames = 0 /\ events = 0 /\ touched = {}
    /\ tick_start = <<>> /\ ran = <<>> /\ calls = <<>>
    /\ step_log = [requested |-> 0, served |-> 0]
    /\ systems = <<>> /\ sys_i = 0
    /\ accumulator = 0 /\ paused = FALSE /\ step_next = FALSE /\ snapshot = <<>>
    /\ selected_body_index = 0 - 1 /\ dragging = FALSE /\ dragging_idx = 0 - 1
    /\ mouse_history = [hist |-> [i \in 1..8 |-> vec2(0, 0)], idx |-> 0, count |-> 0]
    /\ spawn = [mass |-> InitialMass, radius |-> InitialRadius, restitution |-> 1,
                damping |-> 0, friction |-> 0]
    /\ mouse_was_down = FALSE
    /\ input = NoInput
    /\ fault = FALSE

\* after world sim_world(bodies, gravity, fixed_dt)
Init ==
    /\ MainInit
    /\ bodies = InitialBodies
    /\ initial_bodies = bodies
    /\ gravity_vector = gravity
    /\ delta_time = fixed_dt
    /\ grid_info = DefaultGridInfo
    /\ grid = ConstructedGrid(DefaultGridInfo)
    /\ pc = "constructed"

(***************************************************************************)
(* main(): start-up                                                        *)
(***************************************************************************)
\* the grid bounds set to the visible window, the grid resized
Reconfigure ==
    /\ pc = "constructed"
    /\ grid_info' = ReconfiguredGridInfo(grid_info)
    /\ grid' = ReconfiguredGrid(grid_info')
    /\ pc' = "configured"
    /\ UNCHANGED <<bodies, gravity_vector, delta_time, fault, loopVars, uiVars, input, histVars>>

\* previous_position corrected, the two systems registered
Setup ==
    /\ pc = "configured"
    /\ bodies' = InitialCorrection(bodies, delta_time)
    /\ systems' = Registration
    /\ pc' = "loop"
    /\ UNCHANGED <<gravity_vector, delta_time, grid_info, grid, fault, sys_i, accumulator,
                   paused, step_next, snapshot, uiVars, input, histVars>>

(***************************************************************************)
(* main(): one frame.  The frame time is added and the keys P, N, O, L are *)
(* handled; the fixed-step loop runs; the drag, spawn, selection and       *)
(* property handlers run.                                                  *)
(***************************************************************************)
Pressed(inp) == inp.mouse_down /\ ~mouse_was_down

Inputs ==
    {inp \in [frame_time : FrameTimes, keys : KeySets,
              mouse_down : BOOLEAN, mouse : MousePoints] :
        /\ events + Cardinality(inp.keys) + (IF Pressed(inp) THEN 1 ELSE 0) <= MaxEvents
        /\ (~inp.mouse_down /\ "SPACE" \notin inp.keys) => inp.mouse = IdleMouse
        /\ "SPACE" \in inp.keys => Len(bodies) < MaxBodies}

FrameBegin ==
    /\ pc = "loop"
    /\ frames < MaxFrames
    /\ \E inp \in Inputs :
        LET paused1 == IF "P" \in inp.keys THEN ~paused ELSE paused
            snapshot1 == IF "O" \in inp.keys THEN bodies ELSE snapshot
            restore == "L" \in inp.keys /\ snapshot1 # <<>>
        IN /\ input' = inp
           /\ accumulator' = accumulator + inp.frame_time
           /\ paused' = paused1
           /\ step_next' = IF "N" \in inp.keys /\ paused1 THEN TRUE ELSE step_next
           /\ snapshot' = snapshot1
           /\ bodies' = IF restore THEN Restored(snapshot1, delta_time) ELSE bodies
           /\ touched' = IF restore THEN touched \cup {"restore"} ELSE touched
           /\ events' = events + Cardinality(inp.keys) + (IF Pressed(inp) THEN 1 ELSE 0)
           /\ step_log' = IF "N" \in inp.keys /\ paused1
                            THEN [step_log EXCEPT !.requested = @ + 1] ELSE step_log
    /\ pc' = "drain"
    /\ UNCHANGED <<gravity_vector, delta_time, grid_info, grid, fault, systems, sys_i,
                   uiVars, frames, tick_start, ran, initial_bodies, calls>>

\* while (accumulator >= fixed_dt): the loop is left
DrainExit ==
    /\ pc = "drain"
    /\ accumulator < fixed_dt
    /\ pc' = "handlers"
    /\ UNCHANGED <<worldVars, loopVars, uiVars, input, histVars>>

\* paused and no step requested: the step is dropped and the loop is left
DrainSkip ==
    /\ pc = "drain"
    /\ accumulator >= fixed_dt
    /\ ~(~paused \/ step_next)
    /\ accumulator' = accumulator - fixed_dt
    /\ pc' = IF paused THEN "handlers" ELSE "drain"
    /\ UNCHANGED <<worldVars, systems, sys_i, paused, step_next, snapshot, uiVars, input, histVars>>

\* manager.update(sim_world, fixed_dt) is entered
UpdateBegin ==
    /\ pc = "drain"
    /\ accumulator >= fixed_dt
    /\ ~paused \/ step_next
    /\ sys_i' = 0
    /\ tick_start' = bodies
    /\ ran' = <<>>
    /\ pc' = "update"
    /\ UNCHANGED <<worldVars, systems, accumulator, paused, step_next, snapshot, uiVars,
                   input, frames, events, touched, initial_bodies, calls, step_log>>

\* systemManager::update: the next system in the list is updated
RunMovement ==
    /\ pc = "update"
    /\ sys_i < Len(systems)
    /\ systems[sys_i + 1] = "movementSystem"
    /\ bodies' = verlet_integration(bodies, gravity_vector, delta_time)
    /\ sys_i' = sys_i + 1
    /\ ran' = Append(ran, "movementSystem")
    /\ UNCHANGED <<gravity_vector, delta_time, grid_info, grid, fault, pc, systems,
                   accumulator, paused, step_next, snapshot, uiVars, input,
                   frames, events, touched, tick_start, initial_bodies, calls, step_log>>

\* collisionSystem::update.  The response to a body-body contact is not
\* modelled: a tick in which the narrow phase confirms a collision is not
\* taken.  An out-of-bounds write in repoblar is undefined behaviour: the
\* program goes on with the reference stored in no cell, or it crashes.
RunCollision ==
    /\ pc = "update"
    /\ sys_i < Len(systems)
    /\ systems[sys_i + 1] = "collisionSystem"
    /\ LET g == repoblar(limpieza(grid), grid_info, bodies)
           oob == RepoblarOutOfBounds(grid, grid_info, bodies)
       IN /\ ConfirmedCollisions(g, bodies) = {}
          /\ \/ /\ grid' = g
                /\ fault' = (fault \/ oob)
                /\ bodies' = BoundaryCollisions(bodies, grid_info, delta_time)
                /\ sys_i' = sys_i + 1
                /\ ran' = Append(ran, "collisionSystem")
                /\ pc' = pc
             \/ /\ oob
                /\ pc' = "crashed"
                /\ UNCHANGED <<grid, fault, bodies, sys_i, ran, step_log>>
    /\ UNCHANGED <<gravity_vector, delta_time, grid_info, systems,
                   accumulator, paused, step_next, snapshot, uiVars, input,
                   frames, events, touched, tick_start, initial_bodies, calls, step_log>>

\* manager.update returns: step_next cleared, the accumulator drained by one
\* step, the loop left when paused
UpdateReturn ==
    /\ pc = "update"
    /\ sys_i >= Len(systems)
    /\ step_next' = FALSE
    /\ accumulator' = accumulator - fixed_dt
    /\ pc' = IF paused THEN "handlers" ELSE "drain"
    /\ step_log' = IF step_next THEN [step_log EXCEPT !.served = @ + 1] ELSE step_log
    /\ UNCHANGED <<worldVars, systems, sys_i, paused, snapshot, uiVars, input,
                   frames, events, touched, tick_start, ran, initial_bodies, calls>>

\* the handlers after the loop, in the order of the code
Handlers ==
    /\ pc = "handlers"
    /\ LET keys == input.keys
           down == input.mouse_down
           pressed == Pressed(input)
           released == ~down /\ mouse_was_down
           dt == delta_time
           \* the dragged body follows the mouse
           drag == dragging /\ ValidIndex(bodies, dragging_idx)
           b1 == IF drag
                 THEN [bodies EXCEPT ![dragging_idx + 1] =
                          DragMove(@, NewestMouse(mouse_history), dt)]
                 ELSE bodies
           \* mouse button down: drag start, mouse history
           idx == select_body_at_screen(b1, input.mouse)
           start == down /\ ~dragging /\ idx >= 0
           dragging2 == dragging \/ start
           dragging_idx2 == IF start THEN idx ELSE dragging_idx
           history2 == IF down THEN PushMouse(mouse_history, ScreenToWorld(input.mouse))
                       ELSE mouse_history
           \* mouse button released: the body is thrown
           throw == released /\ dragging2 /\ ValidIndex(b1, dragging_idx2)
           b3 == IF throw
                 THEN [b1 EXCEPT ![dragging_idx2 + 1] = Release(@, history2, dt)]
                 ELSE b1
           \* SPACE: spawn at the mouse
           b4 == IF "SPACE" \in keys THEN Append(b3, Spawned(spawn, input.mouse, dt)) ELSE b3
           \* mouse button pressed: selection
           selected6 == IF pressed THEN select_body_at_screen(b4, input.mouse)
                        ELSE selected_body_index
           \* the selected body: property keys, delete
           has == ValidIndex(b4, selected6)
           ek == KeyOf(keys, EditKeys)
           erase == has /\ "X" \in keys
           edit == has /\ ek # "none"
           b7 == IF erase THEN Erase(b4, selected6)
                 ELSE IF edit THEN [b4 EXCEPT ![selected6 + 1] = Edited(@, ek, dt)]
                 ELSE b4
       IN /\ bodies' = b7
          /\ dragging' = IF released THEN FALSE ELSE dragging2
          /\ dragging_idx' = IF released THEN 0 - 1 ELSE dragging_idx2
          /\ mouse_history' = history2
          /\ spawn' = SpawnKey(spawn, KeyOf(keys, SpawnKeys))
          /\ selected_body_index' = IF erase THEN 0 - 1 ELSE selected6
          /\ mouse_was_down' = down
          /\ touched' = touched \cup (IF drag THEN {"drag"} ELSE {})
                                 \cup (IF throw THEN {"release"} ELSE {})
                                 \cup (IF "SPACE" \in keys THEN {"spawn"} ELSE {})
                                 \cup (IF erase THEN {"erase"} ELSE {})
                                 \cup (IF edit /\ ~erase THEN {"edit"} ELSE {})
    /\ frames' = frames + 1
    /\ pc' = "loop"
    /\ UNCHANGED <<gravity_vector, delta_time, grid_info, grid, fault, loopVars, input,
                   events, tick_start, ran, initial_bodies, calls, step_log>>

Next ==
    \/ Reconfigure
    \/ Setup
    \/ FrameBegin
    \/ DrainExit
    \/ DrainSkip
    \/ UpdateBegin
    \/ RunMovement
    \/ RunCollision
    \/ UpdateReturn
    \/ Handlers

Spec == Init /\ [][Next]_vars

(***************************************************************************)
(* The main loop entered with the simulation paused: the state main() is   *)
(* in after a first frame of no duration in which P was pressed.           *)
(***************************************************************************)
InitPaused ==
    /\ frames = 0 /\ events = 0 /\ touched = {}
    /\ tick_start = <<>> /\ ran = <<>> /\ calls = <<>>
    /\ step_log = [requested |-> 0, served |-> 0]
    /\ bodies = InitialCorrection(InitialBodies, fixed_dt)
    /\ initial_bodies = bodies
    /\ gravity_vector = gravity
    /\ delta_time = fixed_dt
    /\ grid_info = ReconfiguredGridInfo(DefaultGridInfo)
    /\ grid = ReconfiguredGrid(grid_info)
    /\ fault = FALSE
    /\ pc = "loop"
    /\ systems = Registration /\ sys_i = 0
    /\ accumulator = 0 /\ paused = TRUE /\ step_next = FALSE /\ snapshot = <<>>
    /\ selected_body_index = 0 - 1 /\ dragging = FALSE /\ dragging_idx = 0 - 1
    /\ mouse_history = [hist |-> [i \in 1..8 |-> vec2(0, 0)], idx |-> 0, count |-> 0]
    /\ spawn = [mass |-> InitialMass, radius |-> InitialRadius, restitution |-> 1,
                damping |-> 0, friction |-> 0]
    /\ mouse_was_down = FALSE
    /\ input = [NoInput EXCEPT !.keys = {"P"}]

NextLoop ==
    \/ FrameBegin
    \/ DrainExit
    \/ DrainSkip
    \/ UpdateBegin
    \/ RunMovement
    \/ RunCollision
    \/ UpdateReturn
    \/ Handlers

SpecPaused == InitPaused /\ [][NextLoop]_vars

(***************************************************************************)
(* The integrator on its own: worlds built from sample bodies, stepped by  *)
(* verlet_integration.  SpecVerlet takes worlds made by                    *)
(* world(bodies, gravedad, delta_time) with a positive step, corrected as  *)
(* main() corrects them; SpecDefaultWorld takes the world made by          *)
(* world(), whose delta_time is 0, with bodies pushed into it.             *)
(***************************************************************************)
SampleVelocities == { vec2(0, 0), vec2(3, 0 - 1) }
SampleGravities == { vec2(0, 0), gravity, vec2(3, 0 - 10) }

SampleBodies ==
    { create_body(0, 0, v[1], v[2], m, InitialRadius, 1, d, f) :
        v \in SampleVelocities, m \in {0, MassStep}, d \in {0, DampingStep},
        f \in {0, DampingStep} }

SampleWorlds ==
    { <<b>> : b \in SampleBodies } \cup { <<a, b>> : a \in SampleBodies, b \in SampleBodies }

InitVerlet ==
    /\ MainInit
    /\ delta_time \in 1..MaxDt
    /\ gravity_vector \in SampleGravities
    /\ \E w \in SampleWorlds : bodies = InitialCorrection(w, delta_time)
    /\ initial_bodies = bodies
    /\ grid_info = DefaultGridInfo
    /\ grid = ConstructedGrid(DefaultGridInfo)
    /\ pc = "api"

\* world::world()
InitDefaultWorld ==
    /\ MainInit
    /\ delta_time = 0
    /\ gravity_vector = vec2(0, 0)
    /\ bodies = <<>>
    /\ initial_bodies = bodies
    /\ grid_info = DefaultGridInfo
    /\ grid = EmptyGrid(0)
    /\ pc = "api"

\* a body pushed into the world before it is stepped
PushBody ==
    /\ pc = "api"
    /\ calls = <<>>
    /\ Len(bodies) < 2
    /\ \E b \in SampleBodies : bodies' = Append(bodies, b)
    /\ initial_bodies' = bodies'
    /\ UNCHANGED <<gravity_vector, delta_time, grid_info, grid, fault, pc, loopVars, uiVars,
                   input, frames, events, touched, tick_start, ran, calls, step_log>>

\* movementSystem::update
VerletStep ==
    /\ pc = "api"
    /\ bodies # <<>>
    /\ Len(calls) < MaxSteps
    /\ bodies' = verlet_integration(bodies, gravity_vector, delta_time)
    /\ calls' = Append(calls, "verlet_integration")
    /\ UNCHANGED <<gravity_vector, delta_time, grid_info, grid, fault, pc, loopVars, uiVars,
                   input, frames, events, touched, tick_start, ran, initial_bodies, step_log>>

NextVerlet == VerletStep
SpecVerlet == InitVerlet /\ [][NextVerlet]_vars

NextDefaultWorld == PushBody \/ VerletStep
SpecDefaultWorld == InitDefaultWorld /\ [][NextDefaultWorld]_vars

(***************************************************************************)
(* The acceleration accumulator: worlds whose bodies are constructed with  *)
(* an acceleration, stepped by the integrator and by world::update.        *)
(***************************************************************************)
SampleAccelerations == { vec2(0, 0), vec2(4, 0 - 2) }

AcceleratedBodies ==
    { body(vec2(0, 0), v, a, m, InverseOf(m), InitialRadius, 1, 0, 0) :
        v \in SampleVelocities, a \in SampleAccelerations, m \in {0, MassStep} }

InitAcceleration ==
    /\ MainInit
    /\ delta_time \in 1..MaxDt
    /\ gravity_vector \in SampleGravities
    /\ \E b \in AcceleratedBodies : bodies = InitialCorrection(<<b>>, delta_time)
    /\ initial_bodies = bodies
    /\ grid_info = DefaultGridInfo
    /\ grid = ConstructedGrid(DefaultGridInfo)
    /\ pc = "api"

\* world::update, one body: the explicit Euler step, which consumes the
\* acceleration and clears it
WorldUpdateBody(b, gravedad, dt) ==
    LET aceleracion_total == VAdd(b.acceleration, gravedad)
        velocidad == VAdd(b.velocity, VScale(aceleracion_total, dt))
    IN [b EXCEPT !.velocity = velocidad,
                 !.position = VAdd(b.position, VScale(velocidad, dt)),
                 !.acceleration = vec2(0, 0)]

\* world::update
world_update(bs, gravedad, dt) == [i \in 1..Len(bs) |-> WorldUpdateBody(bs[i], gravedad, dt)]

WorldUpdate ==
    /\ pc = "api"
    /\ bodies # <<>>
    /\ Len(calls) < MaxSteps
    /\ bodies' = world_update(bodies, gravity_vector, delta_time)
    /\ calls' = Append(calls, "update")
    /\ UNCHANGED <<gravity_vector, delta_time, grid_info, grid, fault, pc, loopVars, uiVars,
                   input, frames, events, touched, tick_start, ran, initial_bodies, step_log>>

NextAcceleration == VerletStep \/ WorldUpdate
SpecAcceleration == InitAcceleration /\ [][NextAcceleration]_vars

(***************************************************************************)
(* The grid on its own: the world as main() configures it, with sample     *)
(* bodies; limpieza() and repoblar() called in any order, bodies moved in  *)
(* between.                                                                *)
(***************************************************************************)
MaxCalls == 3

\* positions tried: two in one cell, one in another cell, one on the top edge
\* and one on the right edge of the rectangle, one outside
GridPositions ==
    { vec2(0, 0), vec2(10, 0), vec2(0 - 300, 200), vec2(0, vis_max_y), vec2(vis_max_x, 0),
      vec2(700, 0) }

GridBodies == { create_body(q[1], q[2], 0, 0, InitialMass, InitialRadius, 1, 0, 0) : q \in GridPositions }

InitGrid ==
    /\ MainInit
    /\ delta_time = fixed_dt
    /\ gravity_vector = gravity
    /\ bodies \in { <<b>> : b \in GridBodies } \cup { <<a, b>> : a \in GridBodies, b \in GridBodies }
    /\ initial_bodies = bodies
    /\ grid_info = ReconfiguredGridInfo(DefaultGridInfo)
    /\ grid = ReconfiguredGrid(grid_info)
    /\ pc = "grid"

CallLimpieza ==
    /\ pc = "grid"
    /\ Len(calls) < MaxCalls
    /\ grid' = limpieza(grid)
    /\ calls' = Append(calls, "limpieza")
    /\ UNCHANGED <<bodies, gravity_vector, delta_time, grid_info, fault, pc, loopVars, uiVars,
                   input, frames, events, touched, tick_start, ran, initial_bodies, step_log>>

CallRepoblar ==
    /\ pc = "grid"
    /\ Len(calls) < MaxCalls
    /\ grid' = repoblar(grid, grid_info, bodies)
    /\ fault' = (fault \/ RepoblarOutOfBounds(grid, grid_info, bodies))
    /\ calls' = Append(calls, "repoblar")
    /\ UNCHANGED <<bodies, gravity_vector, delta_time, grid_info, pc, loopVars, uiVars,
                   input, frames, events, touched, tick_start, ran, initial_bodies, step_log>>

\* a body's position written between the calls
MoveBody ==
    /\ pc = "grid"
    /\ Len(calls) < MaxCalls
    /\ \E i \in 1..Len(bodies), q \in GridPositions :
          /\ q # bodies[i].position
          /\ bodies' = [bodies EXCEPT ![i].position = q, ![i].previous_position = q]
    /\ calls' = Append(calls, "move")
    /\ UNCHANGED <<gravity_vector, delta_time, grid_info, grid, fault, pc, loopVars, uiVars,
                   input, frames, events, touched, tick_start, ran, initial_bodies, step_log>>

NextGrid == CallLimpieza \/ CallRepoblar \/ MoveBody
SpecGrid == InitGrid /\ [][NextGrid]_vars

(***************************************************************************)
(* Properties                                                              *)
(***************************************************************************)
Steps == Len(calls)

\* C1: a static body (inverse mass 0) has the position, previous position and
\* velocity it started with after any number of integrator steps, whatever the
\* gravity, its damping and its friction.
C1_StaticUnchanged ==
    \A i \in 1..Len(bodies) :
        initial_bodies[i].inv_mass = ZeroInvMass =>
            /\ bodies[i].position = initial_bodies[i].position
            /\ bodies[i].previous_position = initial_bodies[i].previous_position
            /\ bodies[i].velocity = initial_bodies[i].velocity

\* C1 witness: after the last step, a moving static body with damping and
\* friction under gravity, next to a body the integrator has moved.
C1_Witness ==
    /\ Steps = MaxSteps
    /\ gravity_vector # vec2(0, 0)
    /\ Len(bodies) = 2
    /\ IsStatic(bodies[1]) /\ bodies[1].velocity # vec2(0, 0)
    /\ bodies[1].damping # 0 /\ bodies[1].friction # 0
    /\ bodies[2].position # initial_bodies[2].position

\* C3: a non-static body with damping 0 and friction 0, reconciled before the
\* first step, has after n steps the velocity
\* initial_velocity + gravity * n * dt, in both components.
C3_UniformAcceleration ==
    \A i \in 1..Len(bodies) :
        (~IsStatic(bodies[i]) /\ bodies[i].damping = 0 /\ bodies[i].friction = 0) =>
            bodies[i].velocity =
                VAdd(initial_bodies[i].velocity, VScale(gravity_vector, Steps * delta_time))

\* C3 witness: such a body after the last step, under a gravity with two
\* non-zero components and a step other than 1, starting with a velocity.
C3_Witness ==
    /\ Steps = MaxSteps
    /\ delta_time > 1
    /\ gravity_vector[1] # 0 /\ gravity_vector[2] # 0
    /\ ~IsStatic(bodies[1]) /\ bodies[1].damping = 0 /\ bodies[1].friction = 0
    /\ initial_bodies[1].velocity # vec2(0, 0)
    /\ bodies[1].velocity # initial_bodies[1].velocity

\* C8: an integrator step with dt = 0 divides by nothing: every body's velocity
\* and position after it are finite.
C8_ZeroDtFinite ==
    (delta_time = 0 /\ Steps > 0) =>
        \A i \in 1..Len(bodies) :
            /\ VFinite(bodies[i].velocity)
            /\ VFinite(bodies[i].position)

AtTickStart == pc = "update" /\ sys_i = 0

IsReconciled(b) == b.previous_position = VSub(b.position, VScale(b.velocity, delta_time))

C7_InverseMass ==
    \A i \in 1..Len(bodies) : bodies[i].inv_mass = InverseOf(bodies[i].mass)

\* C7 witness: an edit has brought a selected body's mass to 0.
C7_Witness ==
    /\ "edit" \in touched
    /\ \E i \in 1..Len(bodies) : bodies[i].mass = 0 /\ bodies[i].inv_mass = ZeroInvMass

\* C9: from the end of world construction on, the number of grid cells is
\* num_cells_x * num_cells_y, with num_cells_x and num_cells_y the extents
\* divided by the cell size, rounded up.
C9_CellCount ==
    /\ grid.size = grid_info.num_cells_x * grid_info.num_cells_y
    /\ grid_info.num_cells_x = Ceil(grid_info.max_x - grid_info.min_x, cell_size)
    /\ grid_info.num_cells_y = Ceil(grid_info.max_y - grid_info.min_y, cell_size)

\* how often cell c of the grid references body i
RECURSIVE CountIn(_, _)
CountIn(cell, i) ==
    IF cell = <<>> THEN 0
    ELSE (IF Head(cell) = i THEN 1 ELSE 0) + CountIn(Tail(cell), i)

RECURSIVE SumOver(_, _, _)
SumOver(g, cs, i) ==
    IF cs = {} THEN 0
    ELSE LET c == CHOOSE x \in cs : TRUE
         IN CountIn(g.cells[c], i) + SumOver(g, cs \ {c}, i)

References(g, i) == SumOver(g, DOMAIN g.cells, i)

InExactlyItsCell(g, gi, bs, i) ==
    LET idx == get_grid_index(gi, bs[i].position)
    IN idx >= 0 => (References(g, i) = 1 /\ CountIn(CellAt(g, idx), i) = 1)

\* C5: after any call to repoblar(), every body whose position is in bounds
\* (get_grid_index(position) >= 0) is referenced in exactly one grid cell,
\* exactly once, and that cell is the one at the body's computed index.
C5_OneCellAfterRepoblar ==
    (calls # <<>> /\ calls[Len(calls)] = "repoblar") =>
        \A i \in 1..Len(bodies) : InExactlyItsCell(grid, grid_info, bodies, i)

PenetratesGround(b, gi) == ~IsStatic(b) /\ b.position[2] - b.radius < gi.min_y

C11_AccelerationReset ==
    (calls # <<>> /\ calls[Len(calls)] = "verlet_integration") =>
        \A i \in 1..Len(bodies) : bodies[i].acceleration = vec2(0, 0)

InsideRectangle(gi, q) ==
    /\ gi.min_x <= q[1] /\ q[1] <= gi.max_x
    /\ gi.min_y <= q[2] /\ q[2] <= gi.max_y

\* C12: a position inside the closed rectangle, the max_x and max_y edges
\* included, has its cell index in 0 .. num_cells_x * num_cells_y - 1, and
\* repoblar() never accesses a cell outside the grid; a position outside the
\* rectangle has a negative index and its body is in no cell.
C12_IndexInRange ==
    /\ ~fault
    /\ \A i \in 1..Len(bodies) :
          LET idx == get_grid_index(grid_info, bodies[i].position)
          IN IF InsideRectangle(grid_info, bodies[i].position)
             THEN 0 <= idx /\ idx <= grid_info.num_cells_x * grid_info.num_cells_y - 1
             ELSE idx < 0 /\ References(grid, i) = 0

\* every N press made while paused has had its tick, or its tick is pending
StepRequestsServed ==
    step_log.requested = step_log.served + (IF step_next THEN 1 ELSE 0)

\* C13: while paused the physics pipeline runs only for a step requested
\* with N, and each N press made while paused results in exactly one tick; an
\* N press while not paused requests nothing; while not paused every
\* available fixed step is run.
C13_PauseStep ==
    /\ (pc = "update" /\ paused) => step_next
    /\ StepRequestsServed
    /\ (pc = "handlers" /\ ~paused) => accumulator < fixed_dt

\* C14: at the end of every frame's fixed-step loop the accumulator satisfies
\* 0 <= accumulator < fixed_dt, whatever the frame times and the pause,
\* resume and step inputs.
C14_AccumulatorBelowStep ==
    pc = "handlers" => (0 <= accumulator /\ accumulator < fixed_dt)

====
